---- MODULE Spec2Model ----
(***************************************************************************)
(* Model of server.js: one long-lived headless browser page and one CDP    *)
(* session shared by every GET /status request.                            *)
(*                                                                         *)
(* Every async function of server.js is cut at its awaits: an action is    *)
(* the completion of the awaited browser call together with the            *)
(* synchronous continuation up to the next await, which is how the Node    *)
(* event loop interleaves two request handlers.  rq[r].pc names the call   *)
(* a handler is currently awaiting.                                        *)
(***************************************************************************)
EXTENDS Integers, Sequences, FiniteSets, TLC

(***************************************************************************)
(* Bounds of the model.                                                    *)
(***************************************************************************)
\* listeners left behind on the CDP session after which no further request
\* is let in (the count is unbounded in the program)
MaxStale == 1

\* MAX_WAIT_MS, counted in clock ticks of the model
MAX_WAIT_MS == 1

\* the handlers that can be in progress at the same time (express starts a
\* handler per request; nothing in server.js queues them)
Reqs == {1, 2}

\* HTTP statuses of the responses the target site serves
Statuses == {200}

\* the same bound where the requests come one at a time
MaxStaleSerial == 2

\* termination signals delivered to one process before no further one is
\* considered
MaxSignals == 2

VARIABLES
  proc,             \* the Node process: running or gone, its keep-alive
                    \* timer, the shutdowns under way
  phase,            \* "starting" | "running" | "stopped"
  interception,     \* request interception is on at the protocol level
  requestHandlers,  \* number of 'request' listeners registered on page
  lastToggle,       \* the last setRequestInterception call that succeeded:
                    \* "none" | "enable" | "disable"
  staleListeners,   \* 'Network.responseReceived' listeners left on client
                    \* by handlers of requests that were already answered
  inflight,         \* responses the browser has not yet reported
  bodyFetch,        \* invocations of the CDP handler awaiting getResponseBody
  site,             \* what the target site serves: the headers and the body
                    \* of its marker response, the token fields of its page
  rq                \* per handler slot: the state of its request

vars == <<proc, phase, interception, requestHandlers, lastToggle, staleListeners,
          inflight, bodyFetch, site, rq>>

(***************************************************************************)
(* Values.                                                                 *)
(***************************************************************************)
\* a response: src is the slot whose click caused it (0: a request that was
\* already answered, or the page itself), match: its URL carries the marker
NoEvent == [src |-> 0, match |-> FALSE, status |-> 0]

\* a response that does not carry the marker (a document, a script, ...)
OtherResponse == [src |-> 0, match |-> FALSE, status |-> 200]

\* the value a capture wait delivers: not yet settled, null, or a capture
\* (headers: a sequence of [k, v] in the object's key order; body: null or a
\* string, the markup as the sequence of its elements)
NoBody == [null |-> TRUE, elems |-> <<>>]
Body(elems) == [null |-> FALSE, elems |-> elems]

Unset == [kind |-> "unset", ev |-> NoEvent, headers |-> <<>>, body |-> NoBody]
Null  == [kind |-> "null",  ev |-> NoEvent, headers |-> <<>>, body |-> NoBody]
Capture(ev, headers, body) ==
  [kind |-> "capture", ev |-> ev, headers |-> headers, body |-> body]

\* requestVerificationToken: null
NullToken == "<null>"

NoSummary == [null |-> TRUE, status |-> 0]

NoAnswer ==
  [http |-> 0, cookies |-> {}, seen |-> FALSE, summary |-> NoSummary,
   token |-> NullToken, error |-> "none"]

IdleReq ==
  [ pc          |-> "idle",
    navAttempts |-> 0,
    navError    |-> "none",
    had         |-> FALSE,     \* hadInterception
    timer       |-> -1,        \* ticks left on the armed timer, -1: none
    elapsed     |-> 0,         \* ticks spent inside waitForImageDemoResponse
    done        |-> FALSE,     \* the fallback promise's done flag
    listening   |-> FALSE,     \* the fallback handler is registered on client
    resolveCalls|-> 0,         \* calls of the fallback promise's resolve
    resp        |-> Unset,     \* what waitForImageDemoResponse returned
    matched     |-> NoEvent,   \* the Response page.waitForResponse returned
    first       |-> NoEvent,   \* first matching event the wait was shown
    clickEv     |-> NoEvent,   \* the response this request's click caused
    inTime      |-> FALSE,     \* ... and it was reported during the wait
    token       |-> NullToken, \* let token
    domAsked    |-> FALSE,     \* the DOM query ran
    dom         |-> NullToken, \* what the DOM query returned, if it ran
    steps       |-> {},        \* pipeline steps that ran after navigation
    log         |-> <<>>,      \* the steps of the pipeline in the order in
                               \* which the handler went through them
    answer      |-> NoAnswer ]

\* the host of HOME: the default, or the one HOME_URL names
HostSite == <<"h", "t", "m", "l", "c", "s", "s", "t", "o", "i", "m", "a", "g", "e", ".", "c", "o", "m">>
HostOther == <<"e", "x", "a", "m", "p", "l", "e", ".", "c", "o", "m">>

\* a site that serves no token and sets no cookie: no header, an empty body,
\* no token fields, an empty cookie jar, at the default HOME
Absent == "<absent>"
PlainSite ==
  [headers |-> <<>>, body |-> Body(<<>>),
   dom |-> [input |-> Absent, meta |-> Absent],
   jar |-> {}, host |-> HostSite]

\* the process after line 52: running, keepAliveTimer armed, no shutdown
\* under way.  closing counts the calls of gracefulShutdown that await
\* browser.close(); by tells what ended the process
Running ==
  [state |-> "up", keepAlive |-> TRUE, closing |-> 0, closeTried |-> FALSE,
   by |-> "none"]

Init ==
  /\ proc = Running
  /\ phase = "starting"
  /\ interception = FALSE
  /\ requestHandlers = 0
  /\ lastToggle = "none"
  /\ staleListeners = 0
  /\ inflight = {}
  /\ bodyFetch = {}
  /\ site = PlainSite
  /\ rq = [r \in Reqs |-> IdleReq]

Set(r, rec) == rq' = [rq EXCEPT ![r] = rec]

(***************************************************************************)
(* Startup: enableResourceBlocking, then app.listen.  Requests are only    *)
(* accepted once startup has completed.                                    *)
(***************************************************************************)
enableResourceBlocking(ok) ==
  IF ok
    THEN /\ interception' = TRUE
         /\ lastToggle' = "enable"
         /\ requestHandlers' = requestHandlers + 1
    ELSE UNCHANGED <<interception, lastToggle, requestHandlers>>

Startup ==
  /\ phase = "starting"
  /\ \E ok \in BOOLEAN : enableResourceBlocking(ok)
  /\ phase' = "running"
  /\ UNCHANGED <<proc, staleListeners, inflight, bodyFetch, site, rq>>

(***************************************************************************)
(* GET /status: arrival, clearSiteData, guarded goto, waitForSelector.     *)
(***************************************************************************)
\* a slot is free before its first request and after its request is answered
Free(r) == rq[r].pc \in {"idle", "answered"}

Answered(r) == rq[r].pc = "answered"
Answered200(r) == Answered(r) /\ rq[r].answer.http = 200

\* the handler of slot r has started and has not sent its answer
InPipeline(r) == rq[r].pc \notin {"idle", "answered"}

\* the responses still under way that the request of slot r caused are, once
\* that request is answered, responses of an earlier request
Retire(r, evs) ==
  {IF ev.src = r THEN [ev EXCEPT !.src = 0] ELSE ev : ev \in evs}

\* express runs the handler up to its first await, inside clearSiteData
Enter(r) ==
  /\ phase = "running"
  /\ Free(r)
  /\ \A q \in Reqs : q < r => ~Free(q)
  /\ Set(r, [IdleReq EXCEPT !.pc = "clear"])
  /\ UNCHANGED <<proc, phase, interception, requestHandlers, lastToggle,
                 staleListeners,
                 inflight, bodyFetch, site>>

\* a request arrives, whether or not another one is being handled
Arrive(r) ==
  /\ staleListeners < MaxStale
  /\ Enter(r)

\* the four best-effort clearing calls of clearSiteData
ClearingSteps == {"cookies", "cache", "storage", "page"}

\* clearSiteData returns after the calls in failed threw: each has its own
\* try with an empty catch, and the first page.goto is issued
Cleared(r, failed) ==
  /\ rq[r].pc = "clear"
  /\ failed \subseteq ClearingSteps
  /\ Set(r, [rq[r] EXCEPT !.pc = "goto1", !.navAttempts = 1,
                          !.log = Append(@, "reset")])
  /\ UNCHANGED <<proc, phase, interception, requestHandlers, lastToggle,
                 staleListeners,
                 inflight, bodyFetch, site>>

clearSiteData(r) == \E failed \in SUBSET ClearingSteps : Cleared(r, failed)

InternalError ==
  [http |-> 500, cookies |-> {}, seen |-> FALSE, summary |-> NoSummary,
   token |-> NullToken, error |-> "internal error"]

\* the handler has returned: its locals are gone, what is kept of the request
\* is what it was answered and the record of how its pipeline ran
Finished(rec, ans) ==
  [rec EXCEPT !.pc = "answered", !.answer = ans, !.had = FALSE,
              !.timer = -1, !.elapsed = 0, !.done = FALSE,
              !.listening = FALSE, !.matched = NoEvent]

\* the outer catch: res.status(500).json(...)
Answer500(rec) == Finished(rec, InternalError)

\* (a retry that does not look at the message)
RetryOnAnyError(err) == TRUE

\* e.message.toLowerCase().includes('detached frame')
IsDetachedFrame(err) == err = "detached"

\* first page.goto (or the page-closed check before it)
Goto1(r) ==
  /\ rq[r].pc = "goto1"
  /\ \E out \in {"ok", "detached", "other"} :
       IF out = "ok"
         THEN Set(r, [rq[r] EXCEPT !.pc = "selector",
                                   !.steps = @ \cup {"selector"},
                                   !.log = Append(@, "navigate")])
         ELSE IF IsDetachedFrame(out)
           THEN Set(r, [rq[r] EXCEPT !.pc = "goto2", !.navError = out,
                                     !.navAttempts = 2])
           ELSE Set(r, Answer500([rq[r] EXCEPT !.navError = out]))
  /\ UNCHANGED <<proc, phase, interception, requestHandlers, lastToggle,
                 staleListeners,
                 inflight, bodyFetch, site>>

\* the retry; whatever it throws reaches the outer catch
Goto2(r) ==
  /\ rq[r].pc = "goto2"
  /\ \E ok \in BOOLEAN :
       IF ok
         THEN Set(r, [rq[r] EXCEPT !.pc = "selector",
                                   !.steps = @ \cup {"selector"},
                                   !.log = Append(@, "navigate")])
         ELSE Set(r, Answer500(rq[r]))
  /\ UNCHANGED <<proc, phase, interception, requestHandlers, lastToggle,
                 staleListeners,
                 inflight, bodyFetch, site>>

\* the navigation is over: its attempts are no longer told apart
Navigated(rec) == [rec EXCEPT !.navAttempts = 0, !.navError = "none"]

\* page.waitForSelector; on success the suspend call is issued
WaitForSelector(r) ==
  /\ rq[r].pc = "selector"
  /\ \E ok \in BOOLEAN :
       IF ok
         THEN Set(r, [Navigated(rq[r]) EXCEPT !.pc = "suspend",
                                              !.steps = @ \cup {"suspend"}])
         ELSE Set(r, Answer500(Navigated(rq[r])))
  /\ UNCHANGED <<proc, phase, interception, requestHandlers, lastToggle,
                 staleListeners,
                 inflight, bodyFetch, site>>

(***************************************************************************)
(* Suspend interception, then the click.                                   *)
(***************************************************************************)
\* (a suspend step without its try: the rejection reaches the outer catch)
SuspendThrows(r, ok) ==
  /\ rq[r].pc = "suspend"
  /\ interception' = IF ok THEN FALSE ELSE interception
  /\ lastToggle' = IF ok THEN "disable" ELSE lastToggle
  /\ IF ok
       THEN Set(r, [rq[r] EXCEPT !.pc = "click", !.had = TRUE,
                                 !.steps = @ \cup {"click"},
                                 !.log = Append(@, "suspend")])
       ELSE Set(r, Answer500(rq[r]))
  /\ UNCHANGED <<proc, phase, requestHandlers, staleListeners, inflight, bodyFetch,
                 site>>

\* await page.setRequestInterception(false) settles, resolved (ok) or
\* rejected; the 'request' listener stays
Suspended(r, ok) ==
  /\ rq[r].pc = "suspend"
  /\ interception' = IF ok THEN FALSE ELSE interception
  /\ lastToggle' = IF ok THEN "disable" ELSE lastToggle
  /\ Set(r, [rq[r] EXCEPT !.pc = "click", !.had = ok,
                          !.steps = @ \cup {"click"},
                          !.log = Append(@, "suspend")])
  /\ UNCHANGED <<proc, phase, requestHandlers, staleListeners, inflight, bodyFetch,
                 site>>

Suspend(r) == \E ok \in BOOLEAN : Suspended(r, ok)

\* the browser performs the click; the page may answer it with a request
\* whose URL carries the marker
ClickEffect(r, rec) ==
  \/ /\ Set(r, rec)
     /\ UNCHANGED inflight
  \/ \E s \in Statuses :
       LET ev == [src |-> r, match |-> TRUE, status |-> s] IN
         /\ Set(r, [rec EXCEPT !.clickEv = ev])
         /\ inflight' = inflight \cup {ev}

\* page.click dispatched in the browser; its promise is not yet resolved
ClickFire(r) ==
  /\ rq[r].pc = "click"
  /\ ClickEffect(r, [rq[r] EXCEPT !.pc = "clicked",
                                  !.log = Append(@, "click")])
  /\ UNCHANGED <<proc, phase, interception, requestHandlers, lastToggle,
                 staleListeners,
                 bodyFetch, site>>

\* page.click throws: the catch issues the page.evaluate click
ClickFail(r) ==
  /\ rq[r].pc = "click"
  /\ Set(r, [rq[r] EXCEPT !.pc = "evalClick", !.log = Append(@, "click")])
  /\ UNCHANGED <<proc, phase, interception, requestHandlers, lastToggle,
                 staleListeners,
                 inflight, bodyFetch, site>>

\* the programmatic click runs in the page
EvalClickFire(r) ==
  /\ rq[r].pc = "evalClick"
  /\ ClickEffect(r, [rq[r] EXCEPT !.pc = "clicked"])
  /\ UNCHANGED <<proc, phase, interception, requestHandlers, lastToggle,
                 staleListeners,
                 bodyFetch, site>>

(***************************************************************************)
(* waitForImageDemoResponse: page.waitForResponse first, then the CDP      *)
(* one-shot listener.                                                      *)
(***************************************************************************)
\* the call of waitForImageDemoResponse: page.waitForResponse registers its
\* listener and arms its timeout
CallWait(rec) ==
  [rec EXCEPT !.pc = "primary", !.timer = MAX_WAIT_MS,
              !.steps = @ \cup {"wait"}]

\* await page.click returns
ClickDone(r) ==
  /\ rq[r].pc = "clicked"
  /\ Set(r, CallWait(rq[r]))
  /\ UNCHANGED <<proc, phase, interception, requestHandlers, lastToggle,
                 staleListeners,
                 inflight, bodyFetch, site>>

\* the page.evaluate click throws too: swallowed, the wait starts
EvalClickFail(r) ==
  /\ rq[r].pc = "evalClick"
  /\ Set(r, CallWait(rq[r]))
  /\ UNCHANGED <<proc, phase, interception, requestHandlers, lastToggle,
                 staleListeners,
                 inflight, bodyFetch, site>>

\* new Promise(...): the timer is armed and the handler attached to client
EnterFallback(rec) ==
  [rec EXCEPT !.pc = "fallback", !.timer = MAX_WAIT_MS, !.done = FALSE,
              !.listening = TRUE]

\* r.url().includes(IMAGE_DEMO_SUBSTR)
PrimaryPredicate(ev) == ev.match

\* (a handler without its `if (done) return`)
HandlerIgnoresDone(rec, ev) == ev.match

\* the handler's two early returns: URL without the marker, done already set
HandlerAccepts(rec, ev) == ev.match /\ ~rec.done

\* the wait of rec has a listener registered and has not been settled
Waiting(rec) ==
  \/ rec.pc = "primary"
  \/ rec.pc = "fallback" /\ rec.resp.kind = "unset" /\ rec.listening

\* the fallback handler of rec runs past its early returns on ev
FallbackTakes(rec, ev) ==
  rec.pc # "primary" /\ rec.listening /\ HandlerAccepts(rec, ev)

\* what one reported response does to the request in a slot
OnResponse(rec, ev) ==
  LET seenByWait == ev.match /\ Waiting(rec)
      hist == [rec EXCEPT
                 !.first  = IF seenByWait /\ @ = NoEvent THEN ev ELSE @,
                 !.inTime = IF /\ ev.match
                               /\ ev = rec.clickEv
                               /\ rec.pc \in {"clicked", "primary", "fallback"}
                               /\ rec.resp.kind = "unset"
                            THEN TRUE ELSE @]
  IN  IF rec.pc = "primary" /\ PrimaryPredicate(ev)
        THEN [hist EXCEPT !.pc = "text", !.timer = -1, !.matched = ev]
        ELSE IF FallbackTakes(rec, ev)
          THEN [hist EXCEPT !.done = TRUE,
                            !.timer = IF rec.pc = "fallback" THEN -1 ELSE @]
          ELSE hist

\* the handler invocations that ev starts: each awaits getResponseBody
Invocations(ev) ==
  {[slot |-> r, ev |-> ev] : r \in {q \in Reqs : FallbackTakes(rq[q], ev)}}

\* the browser reports a response whose URL carries the marker: the page
\* emits 'response' and the CDP session emits 'Network.responseReceived'
Deliver(ev) ==
  /\ ev \in inflight
  /\ inflight' = inflight \ {ev}
  /\ rq' = [r \in Reqs |-> OnResponse(rq[r], ev)]
  /\ bodyFetch' = bodyFetch \cup Invocations(ev)
  /\ UNCHANGED <<proc, phase, interception, requestHandlers, lastToggle,
                 staleListeners, site>>

\* the browser reports some other response (a document, a script, ...)
DeliverOther ==
  /\ phase = "running"
  /\ rq' = [r \in Reqs |-> OnResponse(rq[r], OtherResponse)]
  /\ bodyFetch' = bodyFetch \cup Invocations(OtherResponse)
  /\ UNCHANGED <<proc, phase, interception, requestHandlers, lastToggle,
                 staleListeners,
                 inflight, site>>

\* (a handler that goes from the wait straight to the collection)
AfterWaitNoResume(r, rec) ==
  /\ UNCHANGED requestHandlers
  /\ Set(r, [rec EXCEPT !.timer = -1, !.elapsed = 0, !.matched = NoEvent,
                        !.pc = "cookies", !.log = Append(@, "wait")])

\* the continuation of /status once the wait has returned rec.resp: the
\* resume step, which makes its calls when hadInterception and has nothing
\* to do otherwise, then the cookie query
AfterWait(r, rec) ==
  LET ret == [rec EXCEPT !.timer = -1, !.elapsed = 0, !.matched = NoEvent,
                         !.log = Append(@, "wait")] IN
    IF rec.had
      THEN /\ requestHandlers' = 0
           /\ Set(r, [ret EXCEPT !.pc = "resume",
                                 !.steps = @ \cup {"resume"}])
      ELSE /\ UNCHANGED requestHandlers
           /\ Set(r, [ret EXCEPT !.pc = "cookies",
                                 !.log = Append(@, "resume")])

\* resolve(val) of the fallback promise: only the first call settles it
Resolve(r, rec, val) ==
  LET called == [rec EXCEPT !.resolveCalls = @ + 1] IN
    IF rec.resp.kind = "unset" /\ rec.pc = "fallback"
      THEN AfterWait(r, [called EXCEPT !.resp = val])
      ELSE /\ Set(r, called)
           /\ UNCHANGED requestHandlers

\* time passes: no armed timer is overdue
Tick ==
  /\ \E r \in Reqs : rq[r].timer > 0
  /\ \A r \in Reqs : rq[r].timer # 0
  /\ rq' = [r \in Reqs |->
              [rq[r] EXCEPT
                 !.timer   = IF @ > 0 THEN @ - 1 ELSE @,
                 !.elapsed = IF rq[r].pc \in {"primary", "fallback"}
                                /\ rq[r].timer > 0
                             THEN @ + 1 ELSE @]]
  /\ UNCHANGED <<proc, phase, interception, requestHandlers, lastToggle,
                 staleListeners,
                 inflight, bodyFetch, site>>

\* page.waitForResponse rejects with TimeoutError
PrimaryTimeout(r) ==
  /\ rq[r].pc = "primary"
  /\ rq[r].timer = 0
  /\ Set(r, EnterFallback(rq[r]))
  /\ UNCHANGED <<proc, phase, interception, requestHandlers, lastToggle,
                 staleListeners,
                 inflight, bodyFetch, site>>

\* page.waitForResponse rejects with another error
PrimaryError(r) ==
  /\ rq[r].pc = "primary"
  /\ Set(r, EnterFallback(rq[r]))
  /\ UNCHANGED <<proc, phase, interception, requestHandlers, lastToggle,
                 staleListeners,
                 inflight, bodyFetch, site>>

\* resp.text() settles with b; a failure leaves body null
TextRead(r, b) ==
  /\ rq[r].pc = "text"
  /\ AfterWait(r, [rq[r] EXCEPT
                     !.resp = Capture(rq[r].matched, site.headers, b)])
  /\ UNCHANGED <<proc, phase, interception, lastToggle, staleListeners, inflight,
                 bodyFetch, site>>

TextDone(r) == \E b \in {site.body, NoBody} : TextRead(r, b)

\* the setTimeout callback of the fallback promise
FallbackTimeout(r) ==
  /\ rq[r].pc = "fallback"
  /\ rq[r].timer = 0
  /\ IF ~rq[r].done
       THEN Resolve(r, [rq[r] EXCEPT !.done = TRUE, !.timer = -1], Null)
       ELSE /\ Set(r, [rq[r] EXCEPT !.timer = -1])
            /\ UNCHANGED requestHandlers
  /\ UNCHANGED <<proc, phase, interception, lastToggle, staleListeners, inflight,
                 bodyFetch, site>>

\* Network.getResponseBody settles inside the handler with got (null: it
\* threw): removeListener, resolve
BodyRead(b, got) ==
  /\ b \in bodyFetch
  /\ bodyFetch' = bodyFetch \ {b}
  /\ \* body = resp && resp.body ? resp.body : null
     LET body == IF got.null \/ got.elems = <<>> THEN NoBody ELSE got IN
       Resolve(b.slot, [rq[b.slot] EXCEPT !.listening = FALSE],
               Capture(b.ev, site.headers, body))
  /\ UNCHANGED <<proc, phase, interception, lastToggle, staleListeners, inflight,
                 site>>

BodyDone(b) == \E got \in {site.body, NoBody} : BodyRead(b, got)

(***************************************************************************)
(* Resume interception.                                                    *)
(***************************************************************************)
\* await page.setRequestInterception(true) settles; then page.on('request')
Resumed(r, ok) ==
  /\ rq[r].pc = "resume"
  /\ enableResourceBlocking(ok)
  /\ Set(r, [rq[r] EXCEPT !.pc = "cookies", !.log = Append(@, "resume")])
  /\ UNCHANGED <<proc, phase, staleListeners, inflight, bodyFetch, site>>

ResumeDone(r) == \E ok \in BOOLEAN : Resumed(r, ok)

(***************************************************************************)
(* extractVerificationToken.                                               *)
(***************************************************************************)
UpperCase == <<"A", "B", "C", "D", "E", "F", "G", "H", "I", "J", "K", "L", "M", "N", "O", "P", "Q", "R", "S", "T", "U", "V", "W", "X", "Y", "Z">>
LowerCase == <<"a", "b", "c", "d", "e", "f", "g", "h", "i", "j", "k", "l", "m", "n", "o", "p", "q", "r", "s", "t", "u", "v", "w", "x", "y", "z">>

\* String.prototype.toLowerCase, on a string given as its characters
toLowerCase(str) ==
  [i \in 1..Len(str) |->
     IF \E j \in 1..Len(UpperCase) : UpperCase[j] = str[i]
       THEN LowerCase[CHOOSE j \in 1..Len(UpperCase) : UpperCase[j] = str[i]]
       ELSE str[i]]

\* String.prototype.includes
includes(str, sub) ==
  \E i \in 1..(Len(str) - Len(sub) + 1) : SubSeq(str, i, i + Len(sub) - 1) = sub

HeaderNeedle == <<"r", "e", "q", "u", "e", "s", "t", "v", "e", "r", "i", "f", "i", "c", "a", "t", "i", "o", "n", "t", "o", "k", "e", "n">>
HeaderNeedleDashed == <<"r", "e", "q", "u", "e", "s", "t", "-", "v", "e", "r", "i", "f", "i", "c", "a", "t", "i", "o", "n", "-", "t", "o", "k", "e", "n">>

\* the test of the header loop
KeyMatches(k) ==
  \/ includes(toLowerCase(k), HeaderNeedle)
  \/ includes(toLowerCase(k), HeaderNeedleDashed)

\* the three body.match calls.  An element of the markup is one tag that
\* carries a value v:
\*   "nv_dq"  <input name="__RequestVerificationToken" value="v">
\*   "nv_sq"  <input name='__RequestVerificationToken' value='v'>
\*   "n_x_v"  <input name="__RequestVerificationToken" type="hidden" value="v">
\*   "meta"   <meta name="csrf-token" content="v">
\*   "other"  any other tag
\* a pattern matches the leftmost element of one of its kinds whose value
\* is not empty ([^"]+ needs a character)
PatternKinds ==
  << {"nv_dq", "nv_sq"}, {"nv_dq", "n_x_v"}, {"meta"} >>

PatternHits(elems, p) ==
  {i \in 1..Len(elems) : elems[i].kind \in PatternKinds[p] /\ elems[i].val # ""}

Least(S) == CHOOSE i \in S : \A j \in S : i <= j

\* m = body.match(p1) || body.match(p2) || body.match(p3); m[1]
BodyMatch(elems) ==
  LET hit == {p \in 1..3 : PatternHits(elems, p) # {}} IN
    IF hit = {} THEN NullToken
    ELSE elems[Least(PatternHits(elems, Least(hit)))].val

extractVerificationToken(headers, body) ==
  LET keys == {i \in 1..Len(headers) : KeyMatches(headers[i].k)} IN
    IF keys # {} THEN headers[Least(keys)].v
    ELSE IF ~body.null /\ body.elems # <<>> THEN BodyMatch(body.elems)
    ELSE NullToken

(***************************************************************************)
(* Cookies, token, answer.                                                 *)
(***************************************************************************)
\* (a test for undefined, which null passes)
NotUndefined(resp) == resp.kind # "unset"

\* !!resp
Truthy(resp) == resp.kind = "capture"

\* !token, !tokenVal
Falsy(tok) == tok \in {NullToken, ""}

\* c.domain.includes('htmlcsstoimage') || c.domain.includes('hcti.io')
DomainNeedle == <<"h", "t", "m", "l", "c", "s", "s", "t", "o", "i", "m", "a", "g", "e">>
DomainNeedleShort == <<"h", "c", "t", "i", ".", "i", "o">>

\* the filter applied to what Network.getAllCookies returns
DomainFilter(c) ==
  /\ c.domain # <<>>
  /\ \/ includes(c.domain, DomainNeedle)
     \/ includes(c.domain, DomainNeedleShort)

\* str ends with suffix
endsWith(str, suffix) ==
  /\ Len(suffix) <= Len(str)
  /\ SubSeq(str, Len(str) - Len(suffix) + 1, Len(str)) = suffix

\* page.cookies() without arguments: the cookies of the jar the browser
\* would send to the page's URL, those whose domain the URL's host matches
\* (the host itself, or a parent domain written with or without its dot)
PageCookies(jar, host) ==
  {c \in jar :
     /\ c.domain # <<>>
     /\ LET d == IF Head(c.domain) = "." THEN Tail(c.domain) ELSE c.domain
        IN  \/ host = d
            \/ endsWith(host, <<".">> \o d)}

\* let cookies = []; try { getAllCookies, filter } catch { try { cookies =
\* await page.cookies() } catch { cookies = [] } }.  path: the call that
\* delivered the list ("cdp", "page"), or "none" when both threw
CollectCookies(path) ==
  CASE path = "cdp"  -> {c \in site.jar : DomainFilter(c)}
    [] path = "page" -> PageCookies(site.jar, site.host)
    [] OTHER         -> {}

\* res.json({...})
Answer200(rec, cookies) ==
  Finished([rec EXCEPT !.log = @ \o <<"collect", "respond">>],
                [http    |-> 200,
                 cookies |-> cookies,
                 seen    |-> Truthy(rec.resp),
                 summary |-> IF Truthy(rec.resp)
                               THEN [null   |-> FALSE,
                                     status |-> rec.resp.ev.status]
                               ELSE NoSummary,
                 token   |-> IF Falsy(rec.token) THEN NullToken ELSE rec.token,
                 error   |-> "none"])

\* the request of slot r is answered: a fallback handler it left on client
\* stays there, the responses it caused may still be under way
Respond(r, rec, cookies) ==
  /\ Set(r, Answer200(rec, cookies))
  /\ staleListeners' = staleListeners + (IF rec.listening THEN 1 ELSE 0)
  /\ inflight' = Retire(r, inflight)

\* the function evaluated in the page
DomToken(dom) ==
  IF dom.input # Absent THEN dom.input
  ELSE IF dom.meta # Absent THEN dom.meta
  ELSE NullToken

\* let token = null; if (resp) token = extractVerificationToken(...)
CaptureToken(resp) ==
  IF Truthy(resp) THEN extractVerificationToken(resp.headers, resp.body)
                  ELSE NullToken

\* the collection after the resume step, up to res.json: the cookie query
\* settles (by either path, or empty), the token is looked for in the
\* capture, and without one page.evaluate asks the DOM (a value, or a throw
\* that is swallowed).  None of these calls touches what another handler
\* reads, so they are taken as one step.
Delivered(r, cookies, domOk) ==
  /\ rq[r].pc = "cookies"
  /\ LET tok == CaptureToken(rq[r].resp)
     IN  IF Falsy(tok)
           THEN LET tokenVal == IF domOk THEN DomToken(site.dom) ELSE NullToken
                IN  Respond(r, [rq[r] EXCEPT
                                  !.domAsked = TRUE,
                                  !.dom   = tokenVal,
                                  !.token = IF Falsy(tokenVal) THEN tok
                                                               ELSE tokenVal],
                            cookies)
           ELSE Respond(r, [rq[r] EXCEPT !.token = tok], cookies)
  /\ UNCHANGED <<proc, phase, interception, requestHandlers, lastToggle, bodyFetch,
                 site>>

\* the collection when path delivers the cookies
CookiePaths == {"cdp", "page", "none"}
Collected(r, path, domOk) == Delivered(r, CollectCookies(path), domOk)

Collect(r) ==
  \E cookies \in {CollectCookies(path) : path \in CookiePaths},
     domOk \in BOOLEAN :
    Delivered(r, cookies, domOk)

(***************************************************************************)
(* The process: the request handler on the page's 'request' events, the    *)
(* keep-alive interval, termination signals and gracefulShutdown.          *)
(***************************************************************************)
\* the process is gone and its memory with it: a handler that had not sent
\* its answer never will
Gone(state, by) ==
  /\ proc' = [proc EXCEPT !.state = state, !.by = by, !.closing = 0]
  /\ phase' = "stopped"
  /\ interception' = FALSE
  /\ requestHandlers' = 0
  /\ lastToggle' = "none"
  /\ staleListeners' = 0
  /\ inflight' = {}
  /\ bodyFetch' = {}
  /\ rq' = [r \in Reqs |->
              IF InPipeline(r) THEN [IdleReq EXCEPT !.pc = "lost"] ELSE IdleReq]
  /\ UNCHANGED site

\* a request as the handler sees it: fn is what req.resourceType() returns
\* ("throws": it throws, "nofn": it is not a function), raw is
\* req._resourceType ("": undefined or empty)
ResourceKinds == {"image", "font", "stylesheet", "document", "xhr"}
Requests == [fn : ResourceKinds \cup {"throws", "nofn"},
             raw : ResourceKinds \cup {""}]

\* let t = ''; try { t = ... } catch (e) { t = req._resourceType || '' }
resourceType(req) ==
  IF req.fn \in ResourceKinds THEN req.fn ELSE req.raw

\* the body of the 'request' listener
Decide(req) ==
  IF resourceType(req) \in {"image", "font", "stylesheet"}
    THEN "abort" ELSE "continue"

\* the decisions a request gets: one per listener registered on the page, in
\* the order of their registration
Decisions(req) == [i \in 1..requestHandlers |-> Decide(req)]

\* req.abort() and req.continue() return a rejected promise when interception
\* is not enabled for the request and when the request is already handled;
\* the listener does not await or catch them
Rejections(req) ==
  IF interception THEN Len(Decisions(req)) - 1 ELSE Len(Decisions(req))

\* the page emits 'request' and the listeners decide.  Their decisions
\* change nothing the server keeps; a rejection nobody handles is only
\* reported or ends the process, depending on how Node is run: the step is
\* the one that ends it
RequestEvent ==
  /\ phase = "running"
  /\ {req \in Requests : Rejections(req) > 0} # {}
  /\ Gone("crashed", "rejection")

\* the setInterval callback: page.evaluate(() => 0), errors ignored
KeepAlive ==
  /\ proc.state = "up"
  /\ proc.keepAlive
  /\ UNCHANGED vars

\* SIGINT or SIGTERM.  The listeners are registered at the end of startup;
\* before that the signal has its default disposition.  gracefulShutdown runs
\* up to its await: clearInterval, then the call of browser.close()
Signal ==
  /\ proc.state = "up"
  /\ IF phase = "starting"
       THEN Gone("exited", "signal")
       ELSE /\ proc.closing < MaxSignals
            /\ proc' = [proc EXCEPT !.keepAlive = FALSE, !.closing = @ + 1,
                                    !.closeTried = TRUE]
            /\ UNCHANGED <<phase, interception, requestHandlers, lastToggle,
                           staleListeners, inflight, bodyFetch, site, rq>>

\* browser.close() settles, resolved or rejected: process.exit(0)
CloseDone ==
  /\ proc.state = "up"
  /\ proc.closing > 0
  /\ Gone("exited", "shutdown")

\* the capture pipeline while the process lives, requests arriving at any
\* time
Next ==
  \/ Startup
  \/ Tick
  \/ DeliverOther
  \/ \E ev \in inflight : Deliver(ev)
  \/ \E b \in bodyFetch : BodyDone(b)
  \/ \E r \in Reqs :
       \/ Arrive(r)
       \/ clearSiteData(r)
       \/ Goto1(r)
       \/ Goto2(r)
       \/ WaitForSelector(r)
       \/ Suspend(r)
       \/ ClickFire(r)
       \/ ClickFail(r)
       \/ EvalClickFire(r)
       \/ EvalClickFail(r)
       \/ ClickDone(r)
       \/ PrimaryTimeout(r)
       \/ PrimaryError(r)
       \/ TextDone(r)
       \/ FallbackTimeout(r)
       \/ ResumeDone(r)
       \/ Collect(r)

Spec == Init /\ [][Next]_vars

(***************************************************************************)
(* The collection step on every capture: a second specification, which     *)
(* starts where a request has gone through its wait and its resume step    *)
(* and draws what the site serves from bounded sets.                       *)
(***************************************************************************)
\* longest header list and longest markup drawn
MaxHeaders == 2
MaxElems == 2

KeyCamel  == <<"R", "e", "q", "u", "e", "s", "t", "V", "e", "r", "i", "f", "i", "c", "a", "t", "i", "o", "n", "T", "o", "k", "e", "n">>
KeyDashed == <<"X", "-", "R", "e", "q", "u", "e", "s", "t", "-", "V", "e", "r", "i", "f", "i", "c", "a", "t", "i", "o", "n", "-", "T", "o", "k", "e", "n">>
KeyOther  == <<"C", "o", "n", "t", "e", "n", "t", "-", "T", "y", "p", "e">>

HeaderEntries ==
  { [k |-> KeyCamel,  v |-> "h1"], [k |-> KeyCamel,  v |-> ""],
    [k |-> KeyDashed, v |-> "h2"], [k |-> KeyDashed, v |-> ""],
    [k |-> KeyOther,  v |-> "text/html"] }

Elements ==
  { [kind |-> "nv_dq", val |-> "b1"], [kind |-> "nv_dq", val |-> ""],
    [kind |-> "nv_sq", val |-> "b2"],
    [kind |-> "n_x_v", val |-> "b3"],
    [kind |-> "meta",  val |-> "b4"], [kind |-> "meta",  val |-> ""],
    [kind |-> "other", val |-> "x"] }

SeqsUpTo(S, n) == UNION {[1..m -> S] : m \in 0..n}

\* the keys of an object are distinct
HeaderLists ==
  {h \in SeqsUpTo(HeaderEntries, MaxHeaders) :
     \A i, j \in 1..Len(h) : i # j => h[i].k # h[j].k}

DomStates == [input : {Absent, "", "d1"}, meta : {Absent, "d2"}]

Sites ==
  [headers : HeaderLists,
   body    : {Body(e) : e \in SeqsUpTo(Elements, MaxElems)},
   dom     : DomStates,
   jar     : {PlainSite.jar},
   host    : {PlainSite.host}]

ClickResponse(r) == [src |-> r, match |-> TRUE, status |-> 200]

\* slot 1 after a wait that page.waitForResponse settled with a capture
Captured(resp) ==
  [IdleReq EXCEPT !.pc = "cookies", !.had = TRUE,
                  !.steps = {"selector", "suspend", "click", "wait", "resume"},
                  !.log = <<"reset", "navigate", "suspend", "click", "wait",
                            "resume">>,
                  !.clickEv = ClickResponse(1), !.inTime = TRUE,
                  !.first = ClickResponse(1), !.resp = resp]

\* slot 1 after a wait that the fallback timer settled with null
TimedOut ==
  [IdleReq EXCEPT !.pc = "cookies", !.had = TRUE,
                  !.steps = {"selector", "suspend", "click", "wait", "resume"},
                  !.log = <<"reset", "navigate", "suspend", "click", "wait",
                            "resume">>,
                  !.done = TRUE, !.listening = TRUE, !.resolveCalls = 1,
                  !.resp = Null]

InitCollect ==
  /\ proc = Running
  /\ phase = "running"
  /\ interception = TRUE
  /\ requestHandlers = 1
  /\ lastToggle = "enable"
  /\ staleListeners = 0
  /\ inflight = {}
  /\ bodyFetch = {}
  /\ site \in Sites
  /\ \E first \in
         {TimedOut}
         \cup {Captured(Capture(ClickResponse(1), site.headers, b)) :
                 b \in {site.body, NoBody}} :
       rq = [r \in Reqs |-> IF r = 1 THEN first ELSE IdleReq]

NextCollect == \E r \in Reqs : Collect(r)

SpecCollect == InitCollect /\ [][NextCollect]_vars

(***************************************************************************)
(* The collection step on every cookie jar: a specification that starts    *)
(* at the same place and draws the jar and the host of HOME.               *)
(***************************************************************************)
DomainSite == HostSite
DomainDotSite == <<".">> \o HostSite
DomainShort == <<"i", "m", "g", ".", "h", "c", "t", "i", ".", "i", "o">>
DomainOther == HostOther

\* c.domain is tested before it is searched: a cookie may come without one
Cookies ==
  { [name |-> "session", domain |-> DomainSite],
    [name |-> "pref",    domain |-> DomainDotSite],
    [name |-> "cdn",     domain |-> DomainShort],
    [name |-> "other",   domain |-> DomainOther],
    [name |-> "bare",    domain |-> <<>>] }

CookieSites ==
  [headers : {PlainSite.headers},
   body    : {PlainSite.body},
   dom     : {PlainSite.dom},
   jar     : SUBSET Cookies,
   host    : {HostSite, HostOther}]

InitCookies ==
  /\ proc = Running
  /\ phase = "running"
  /\ interception = TRUE
  /\ requestHandlers = 1
  /\ lastToggle = "enable"
  /\ staleListeners = 0
  /\ inflight = {}
  /\ bodyFetch = {}
  /\ site \in CookieSites
  /\ \E first \in
         {TimedOut, Captured(Capture(ClickResponse(1), site.headers, site.body))} :
       rq = [r \in Reqs |-> IF r = 1 THEN first ELSE IdleReq]

SpecCookies == InitCookies /\ [][NextCollect]_vars

(***************************************************************************)
(* The server as its callers are asked to use it, one capture request at   *)
(* a time, over its whole life: from startup to a termination signal.      *)
(***************************************************************************)
\* what the site serves is drawn at startup: nothing of interest, or a
\* token in the body of the marker response and in the page, and cookies
RichSite ==
  [headers |-> << [k |-> KeyOther, v |-> "text/html"] >>,
   body    |-> Body(<< [kind |-> "meta", val |-> "b4"] >>),
   dom     |-> [input |-> "d1", meta |-> Absent],
   jar     |-> { [name |-> "session", domain |-> DomainSite],
                 [name |-> "other",   domain |-> DomainOther] },
   host    |-> HostSite]

InitSerial ==
  /\ proc = Running
  /\ phase = "starting"
  /\ interception = FALSE
  /\ requestHandlers = 0
  /\ lastToggle = "none"
  /\ staleListeners = 0
  /\ inflight = {}
  /\ bodyFetch = {}
  /\ site \in {PlainSite, RichSite}
  /\ rq = [r \in Reqs |-> IdleReq]

\* a caller that waits for the answer before it sends the next request
ArriveAlone(r) ==
  /\ staleListeners < MaxStaleSerial
  /\ \A q \in Reqs : ~InPipeline(q)
  /\ Enter(r)

NextSerial ==
  \/ Startup
  \/ RequestEvent
  \/ KeepAlive
  \/ Signal
  \/ CloseDone
  \/ Tick
  \/ DeliverOther
  \/ \E ev \in inflight : Deliver(ev)
  \/ \E b \in bodyFetch : BodyDone(b)
  \/ \E r \in Reqs :
       \/ ArriveAlone(r)
       \/ clearSiteData(r)
       \/ Goto1(r)
       \/ Goto2(r)
       \/ WaitForSelector(r)
       \/ Suspend(r)
       \/ ClickFire(r)
       \/ ClickFail(r)
       \/ EvalClickFire(r)
       \/ EvalClickFail(r)
       \/ ClickDone(r)
       \/ PrimaryTimeout(r)
       \/ PrimaryError(r)
       \/ TextDone(r)
       \/ FallbackTimeout(r)
       \/ ResumeDone(r)
       \/ Collect(r)

SpecSerial == InitSerial /\ [][NextSerial]_vars

(***************************************************************************)
(* The claims.                                                             *)
(***************************************************************************)
\* C1: one call of the capture wait resolves at most once: resolve is called
\* at most once, the value delivered is the capture of the first matching
\* event the wait was shown (null when the timer fired before any), and once
\* delivered it does not change while the request lasts.
C1_ResolvesOnce ==
  /\ [](\A r \in Reqs :
          /\ rq[r].resolveCalls <= 1
          /\ rq[r].resp.kind = "capture" => rq[r].resp.ev = rq[r].first
          /\ rq[r].resp.kind = "null" => rq[r].first = NoEvent)
  /\ [][\A r \in Reqs :
          (rq[r].resp.kind # "unset" /\ rq'[r].pc # "clear")
            => rq'[r].resp = rq[r].resp]_vars

\* the fallback listener has settled a wait with a capture, and another
\* matching response is still to be reported
C1_Witness ==
  \E r \in Reqs :
    /\ rq[r].resp.kind = "capture"
    /\ rq[r].resolveCalls = 1
    /\ \E ev \in inflight : ev.match

\* C2: once the capture wait has resolved, no listener it attached is left
\* on the CDP session, so no listener of an answered request is left either.
C2_ListenersDetached ==
  /\ \A r \in Reqs : rq[r].pc \in {"resume", "cookies"} => ~rq[r].listening
  /\ staleListeners = 0

\* C3: while no matching response occurs, a capture wait is over at the
\* latest MAX_WAIT_MS after its call (the clock of the model ticks once per
\* MAX_WAIT_MS, and only timers take time): no wait is still unsettled and
\* not due after more than that.
C3_NullWithinTimeout ==
  \A r \in Reqs :
    (rq[r].pc \in {"primary", "fallback"} /\ rq[r].first = NoEvent)
      => rq[r].elapsed <= MAX_WAIT_MS

\* C4: a request handler is registered on the page exactly when request
\* interception is enabled.
C4_HandlerIffInterception == (requestHandlers > 0) <=> interception

\* C5: whenever the last completed interception step is a disable, the
\* interception is off and no request handler is registered.
C5_DisableLeavesNoHandler ==
  lastToggle = "disable" => (~interception /\ requestHandlers = 0)

\* C6: at most one capture request is between the start of its pipeline and
\* its answer.
C6_Serialised == Cardinality({r \in Reqs : InPipeline(r)}) <= 1

\* C7: a request whose click caused a marker response that was reported
\* after the click was issued and before the wait was over answers 200 with
\* imageDemoResponseSeen = true and that response's status in the summary.
C7_ClickResponseCaptured ==
  \A r \in Reqs :
    (Answered200(r) /\ rq[r].inTime)
      => /\ rq[r].answer.seen
         /\ ~rq[r].answer.summary.null
         /\ rq[r].answer.summary.status = rq[r].clickEv.status

\* C8: a request that got past navigation and the control wait is answered
\* 200, never 500; when its wait was shown no matching response the answer
\* has imageDemoResponseSeen = false and a null summary; and in every 200
\* answer imageDemoResponseSeen is true exactly when the summary is not null.
C8_TimeoutAnswers200 ==
  \A r \in Reqs :
    Answered(r) =>
      /\ "suspend" \in rq[r].steps => rq[r].answer.http = 200
      /\ (rq[r].answer.http = 200 /\ rq[r].first = NoEvent)
           => (~rq[r].answer.seen /\ rq[r].answer.summary.null)
      /\ rq[r].answer.http = 200
           => (rq[r].answer.seen <=> ~rq[r].answer.summary.null)

\* a request whose two waits both timed out, answered 200
C8_Witness ==
  \E r \in Reqs :
    /\ Answered200(r)
    /\ "wait" \in rq[r].steps
    /\ rq[r].first = NoEvent
    /\ rq[r].resp.kind = "null"
    /\ ~rq[r].answer.seen

\* C9: navigation is attempted at most twice, the second time only after a
\* detached-frame error of the first; a request whose navigation failed
\* (first attempt with another error, or second attempt) is answered 500
\* 'internal error' and none of its later steps ran; after a second attempt
\* that succeeded the pipeline goes on with the control wait.
C9_SingleRetry ==
  /\ [](\A r \in Reqs :
          /\ rq[r].navAttempts <= 2
          /\ rq[r].navAttempts = 2 => rq[r].navError = "detached"
          /\ rq[r].pc = "goto2" => rq[r].navAttempts = 2
          /\ rq[r].navError = "other" => (Answered(r) /\ rq[r].navAttempts = 1)
          /\ (Answered(r) /\ rq[r].navAttempts > 0)
               => /\ rq[r].answer.http = 500
                  /\ rq[r].answer.error = "internal error"
                  /\ rq[r].steps = {})
  /\ [][\A r \in Reqs :
          (rq[r].pc = "goto2" /\ rq'[r].pc # "goto2")
            => \/ rq'[r].pc = "selector" /\ rq'[r].navAttempts = 2
               \/ rq'[r].pc = "answered" /\ rq'[r].answer.http = 500]_vars

\* a second attempt has succeeded and the control wait is under way
C9_Witness ==
  \E r \in Reqs :
    /\ rq[r].pc = "selector"
    /\ rq[r].navAttempts = 2
    /\ rq[r].navError = "detached"

\* the probes of the token in their order: the header loop, the three body
\* patterns, the DOM query
PatternValue(body, p) ==
  IF body.null \/ PatternHits(body.elems, p) = {}
    THEN NullToken
    ELSE body.elems[Least(PatternHits(body.elems, p))].val

HeaderValue(headers) ==
  LET keys == {i \in 1..Len(headers) : KeyMatches(headers[i].k)} IN
    IF keys = {} THEN NullToken ELSE headers[Least(keys)].v

Probes(rec) ==
  IF rec.resp.kind = "capture"
    THEN << HeaderValue(rec.resp.headers),
            PatternValue(rec.resp.body, 1),
            PatternValue(rec.resp.body, 2),
            PatternValue(rec.resp.body, 3),
            rec.dom >>
    ELSE << rec.dom >>

FirstNonEmpty(probes) ==
  LET full == {i \in 1..Len(probes) : probes[i] \notin {NullToken, ""}} IN
    IF full = {} THEN NullToken ELSE probes[Least(full)]

\* C10: the token of a 200 answer is the first non-empty value in the probe
\* order header, body patterns 1 to 3, DOM query, and null when there is none.
C10_TokenPriority ==
  \A r \in Reqs :
    Answered200(r) => rq[r].answer.token = FirstNonEmpty(Probes(rq[r]))

\* C11: every cookie of a 200 answer has a domain that matches the known
\* domains of the target site, whichever call delivered the list, and the
\* list is empty when no call did.
C11_CookiesScoped ==
  \A r \in Reqs :
    Answered200(r) =>
      \A c \in rq[r].answer.cookies : DomainFilter(c)

\* the places of a handler, in the order of the code
Rank(pc) ==
  CASE pc = "idle"      -> 0
    [] pc = "clear"     -> 1
    [] pc = "goto1"     -> 2
    [] pc = "goto2"     -> 3
    [] pc = "selector"  -> 4
    [] pc = "suspend"   -> 5
    [] pc = "click"     -> 6
    [] pc = "evalClick" -> 7
    [] pc = "clicked"   -> 8
    [] pc = "primary"   -> 9
    [] pc = "text"      -> 10
    [] pc = "fallback"  -> 11
    [] pc = "resume"    -> 12
    [] pc = "cookies"   -> 13
    [] pc = "answered"  -> 14
    [] OTHER            -> 15

\* a step of the handler of slot r in which an auxiliary call fails
AuxiliaryFailure(r) ==
  \/ \E failed \in SUBSET ClearingSteps : failed # {} /\ Cleared(r, failed)
  \/ Suspended(r, FALSE)
  \/ ClickFail(r)
  \/ EvalClickFail(r)
  \/ TextRead(r, NoBody)
  \/ \E b \in bodyFetch : b.slot = r /\ BodyRead(b, NoBody)
  \/ Resumed(r, FALSE)
  \/ \E domOk \in BOOLEAN : Collected(r, "none", domOk)
  \/ \E path \in CookiePaths : Collected(r, path, FALSE)

\* C12: a request is answered 500 only out of the navigation or the control
\* wait; a step in which an auxiliary call fails (a clearing call, the
\* suspend, the click or its fallback, the body retrieval, the resume, the
\* cookie query, the DOM query) takes the handler further down its pipeline,
\* never to a 500 answer, with null or an empty list for what the call was
\* to deliver; and every request answered 200 ran every step.
C12_AuxiliaryFailuresSwallowed ==
  /\ [][\A r \in Reqs :
          (rq[r].pc # "answered" /\ rq'[r].pc = "answered"
             /\ rq'[r].answer.http = 500)
            => rq[r].pc \in {"goto1", "goto2", "selector"}]_vars
  /\ [][\A r \in Reqs :
          AuxiliaryFailure(r)
            => /\ Rank(rq'[r].pc) > Rank(rq[r].pc)
               /\ Rank(rq'[r].pc) <= Rank("answered")
               /\ rq'[r].pc = "answered" => rq'[r].answer.http = 200]_vars
  /\ [][\A r \in Reqs :
          /\ (TextRead(r, NoBody)
                \/ \E b \in bodyFetch : b.slot = r /\ BodyRead(b, NoBody))
               => (rq'[r].resp.kind = "capture" /\ rq'[r].resp.body = NoBody)
          /\ (\E domOk \in BOOLEAN : Collected(r, "none", domOk))
               => rq'[r].answer.cookies = {}
          /\ ((\E path \in CookiePaths : Collected(r, path, FALSE))
                /\ Falsy(CaptureToken(rq[r].resp)))
               => rq'[r].answer.token = NullToken]_vars
  /\ [](\A r \in Reqs :
          Answered200(r)
            => {"selector", "suspend", "click", "wait"} \subseteq rq[r].steps)

\* a request answered 200 although its suspend failed, the body of its
\* capture could not be read, and both cookie calls and the DOM query threw
C12_Witness ==
  \E r \in Reqs :
    /\ Answered200(r)
    /\ site = RichSite
    /\ "resume" \notin rq[r].steps
    /\ rq[r].resp.kind = "capture"
    /\ rq[r].resp.body = NoBody
    /\ rq[r].answer.cookies = {}
    /\ rq[r].answer.token = NullToken

\* C13: a process that a termination signal made exit has stopped its
\* keep-alive timer and attempted the browser close before; while a shutdown
\* is under way the timer is stopped and the close has been attempted.
C13_ShutdownOrder ==
  /\ proc.closing > 0 => (~proc.keepAlive /\ proc.closeTried)
  /\ proc.state = "exited" => (~proc.keepAlive /\ proc.closeTried)

\* what the resource filter is to decide for a request of a given kind
Blocked == {"image", "font", "stylesheet"}

\* C14: while interception is enabled every request gets exactly one
\* decision: abort when its kind is image, font or stylesheet, continue for
\* every other kind and when the kind cannot be determined.
C14_OneDecision ==
  interception =>
    \A req \in Requests :
      Decisions(req) =
        << IF resourceType(req) \in Blocked THEN "abort" ELSE "continue" >>

\* C15: the process ends only on a termination signal: whenever it is no
\* longer running, a signal ended it (by its default disposition or through
\* gracefulShutdown), never something that happened while a request was
\* handled.
C15_ExitsOnlyOnSignal ==
  proc.state # "up" => proc.by \in {"signal", "shutdown"}

\* C16: the handler of a request answered 200 went through reset,
\* navigation, suspend, click, capture wait, resume, collection and response
\* in this order, each once; and a handler whose suspend succeeded has made
\* its resume attempt by the time it collects, whatever the wait returned.
C16_PipelineOrder ==
  \A r \in Reqs :
    /\ Answered200(r)
         => rq[r].log = <<"reset", "navigate", "suspend", "click", "wait",
                          "resume", "collect", "respond">>
    /\ (rq[r].pc = "cookies" /\ rq[r].had)
         => ("resume" \in rq[r].steps /\ "wait" \in rq[r].steps)

\* a request answered 200 whose suspend succeeded and whose wait timed out
C16_Witness ==
  \E r \in Reqs :
    /\ Answered200(r)
    /\ "resume" \in rq[r].steps
    /\ rq[r].resp.kind = "null"

\* C17: at most one request handler is registered on the page.
C17_OneHandler == requestHandlers <= 1

\* C18: the resume step of a request turns interception on only if
\* interception was on right before its suspend step.  What the handler
\* keeps of the suspend step is hadInterception: it is set only when
\* interception was on, and only a handler that has it set turns
\* interception on in its resume step.
C18_ResumeRestores ==
  [][\A r \in Reqs :
       /\ (rq[r].pc = "suspend" /\ rq'[r].pc = "click" /\ rq'[r].had)
            => interception
       /\ (rq[r].pc = "resume" /\ rq'[r].pc = "cookies"
              /\ ~interception /\ interception')
            => rq[r].had]_vars

\* C19: the capture a request reports comes from the response its own click
\* caused: an answer with imageDemoResponseSeen = true rests on that response.
C19_OwnResponse ==
  \A r \in Reqs :
    (Answered200(r) /\ rq[r].answer.seen) => rq[r].resp.ev = rq[r].clickEv

\* C20: no request is left without an answer: as long as no termination
\* signal has ended the process, the handler of every request that arrived
\* is on its way to its answer or has sent it.
C20_EveryRequestAnswered ==
  \A r \in Reqs :
    rq[r].pc = "lost" => proc.by \in {"signal", "shutdown"}

====
